---- MODULE Spec2Model ----
(***************************************************************************)
(* DashScopeRouter: request dispatch and response normalisation of the     *)
(* three OpenAI-compatible endpoints                                       *)
(*   POST /v1/images/generations   (routes/images.py)                      *)
(*   POST /v1/audio/speech         (routes/speech.py)                      *)
(*   POST /v1/audio/transcriptions (routes/transcriptions.py)              *)
(* served by one asyncio event loop plus the default executor.             *)
(*                                                                         *)
(* Strings that the code takes apart (the Authorization header, the API    *)
(* key) are sequences of one-character strings; names that are only        *)
(* compared or looked up are TLA+ strings.                                 *)
(***************************************************************************)
EXTENDS Integers, Sequences, FiniteSets, TLC

\* ------------------------------------------------------------------------
\* Bounds of the model
\* ------------------------------------------------------------------------
\* number of request slots served concurrently (SpecConc)
NumReq == 2
\* largest number of assets / content items in one backend image response
MaxAssets == 2

Reqs == 1..NumReq

\* ------------------------------------------------------------------------
\* Python values
\* ------------------------------------------------------------------------
\* a key missing from the request body (dict.get falls to its default)
Absent == "<absent>"
\* a JSON null, i.e. Python None stored under the key
Null == "<null>"
\* no "code" key in the error envelope / None
NoCode == "<none>"
\* an image result item without a "url" key
NoUrl == "<no-url>"
\* a content item of a sync image response without an "image" key
NoImage == "<no-image>"

\* Python truthiness of an optional string field
Truthy(s) == s \notin {Absent, Null, ""}

\* str.strip() on a character sequence
RECURSIVE LStrip(_)
LStrip(s) == IF s # <<>> /\ Head(s) = " " THEN LStrip(Tail(s)) ELSE s

RECURSIVE RStrip(_)
RStrip(s) ==
    IF s # <<>> /\ s[Len(s)] = " " THEN RStrip(SubSeq(s, 1, Len(s) - 1)) ELSE s

Strip(s) == LStrip(RStrip(s))

\* the literal "Bearer "
BearerPrefix == <<"B", "e", "a", "r", "e", "r", " ">>

\* str.startswith
StartsWith(s, p) == Len(s) >= Len(p) /\ SubSeq(s, 1, Len(p)) = p

\* ------------------------------------------------------------------------
\* routes/images.py: capability table and aliases
\* ------------------------------------------------------------------------
IMAGE_DEFAULT_MODEL == "qwen-image-plus"

SYNC_MODELS ==
    { "qwen-image-max", "qwen-image-max-2025-12-30", "qwen-image-plus",
      "qwen-image-plus-2026-01-09", "qwen-image" }

ASYNC_MODELS ==
    { "qwen-image-plus", "qwen-image-plus-2026-01-09", "qwen-image",
      "wan2.6-t2i", "wan2.5-t2i-preview", "wan2.2-t2i-plus",
      "wan2.2-t2i-flash", "wanx2.1-t2i-plus", "wanx2.1-t2i-turbo",
      "wanx2.0-t2i-turbo" }

SYNC_ONLY_MODELS == { "qwen-image-max", "qwen-image-max-2025-12-30" }

ASYNC_ONLY_MODELS ==
    { "wan2.6-t2i", "wan2.5-t2i-preview", "wan2.2-t2i-plus",
      "wan2.2-t2i-flash", "wanx2.1-t2i-plus", "wanx2.1-t2i-turbo",
      "wanx2.0-t2i-turbo" }

\* sorted(SYNC_MODELS | ASYNC_MODELS), the image models GET /v1/models lists
IMAGE_SUPPORTED_MODELS == SYNC_MODELS \cup ASYNC_MODELS

\* faulty variant: an alias whose target is in no capability set
IMAGE_MODEL_MAP_unlisted_target ==
    [ k \in {"dall-e-2", "dall-e-3", "gpt-image-1"} |->
        CASE k = "dall-e-2" -> "qwen-image-plus"
          [] k = "dall-e-3" -> "qwen-image-ultra"
          [] k = "gpt-image-1" -> "qwen-image-max" ]

IMAGE_MODEL_MAP ==
    [ k \in {"dall-e-2", "dall-e-3", "gpt-image-1"} |->
        CASE k = "dall-e-2" -> "qwen-image-plus"
          [] k = "dall-e-3" -> "qwen-image-max"
          [] k = "gpt-image-1" -> "qwen-image-max" ]

\* the module-level tables of routes/images.py and routes/speech.py as the
\* running process holds them: Python sets and dicts, which the handlers look
\* up at request time
VARIABLE tables

\* str.lower() on the names the model draws from
Lower(s) ==
    CASE s = "DALL-E-3" -> "dall-e-3"
      [] s = "Dall-E-2" -> "dall-e-2"
      [] s = "QWEN-IMAGE" -> "qwen-image"
      [] s = "TTS-1-HD" -> "tts-1-hd"
      [] s = "Alloy" -> "alloy"
      [] s = "B64_JSON" -> "b64_json"
      [] s = "Chelsie" -> "chelsie"
      [] s = "MyVoice" -> "myvoice"
      [] s = "SRT" -> "srt"
      [] s = "Vtt" -> "vtt"
      [] s = "XML" -> "xml"
      [] OTHER -> s

\* faulty variant: an unmapped name replaced by the default model
images_resolve_model_default_unmapped(model) ==
    IF Lower(model) \in DOMAIN tables.IMAGE_MODEL_MAP
    THEN tables.IMAGE_MODEL_MAP[Lower(model)]
    ELSE IMAGE_DEFAULT_MODEL

\* MODEL_MAP.get(model.lower(), model)
images_resolve_model(model) ==
    IF Lower(model) \in DOMAIN tables.IMAGE_MODEL_MAP
    THEN tables.IMAGE_MODEL_MAP[Lower(model)]
    ELSE model

\* faulty variants of the convention choice
use_async_api_prefers_async(model) == model \in tables.ASYNC_MODELS

use_async_api_unknown_sync(model) == model \in tables.ASYNC_ONLY_MODELS

use_async_api(model) ==
    IF model \in tables.ASYNC_ONLY_MODELS THEN TRUE
    ELSE IF model \in tables.SYNC_ONLY_MODELS \/ model \in tables.SYNC_MODELS
    THEN FALSE
    ELSE TRUE

\* ------------------------------------------------------------------------
\* routes/speech.py: aliases
\* ------------------------------------------------------------------------
TTS_DEFAULT_MODEL == "qwen3-tts-flash"

VOICE_MAP ==
    [ k \in {"alloy", "ash", "ballad", "coral", "echo", "fable", "onyx",
             "nova", "sage", "shimmer"} |->
        CASE k = "alloy" -> "Chelsie"
          [] k = "ash" -> "Ethan"
          [] k = "ballad" -> "Serena"
          [] k = "coral" -> "Cherry"
          [] k = "echo" -> "Kai"
          [] k = "fable" -> "Maia"
          [] k = "onyx" -> "Nofish"
          [] k = "nova" -> "Vivian"
          [] k = "sage" -> "Moon"
          [] k = "shimmer" -> "Bella" ]

\* the speech models GET /v1/models lists
TTS_SUPPORTED_MODELS ==
    { "qwen3-tts-instruct-flash", "qwen3-tts-instruct-flash-2026-01-26",
      "qwen3-tts-vd-2026-01-26", "qwen3-tts-vc-2026-01-22", "qwen3-tts-flash",
      "qwen3-tts-flash-2025-11-27", "qwen3-tts-flash-2025-09-18", "qwen-tts",
      "qwen-tts-latest", "qwen-tts-2025-05-22", "qwen-tts-2025-04-10" }

\* faulty variant: an alias whose target is another alias
TTS_MODEL_MAP_chained ==
    [ k \in {"tts-1", "tts-1-hd"} |->
        IF k = "tts-1-hd" THEN "tts-1" ELSE "qwen3-tts-flash" ]

TTS_MODEL_MAP ==
    [ k \in {"tts-1", "tts-1-hd"} |-> "qwen3-tts-flash" ]

DEFAULT_VOICE == "Chelsie"

resolve_voice(voice) ==
    IF Lower(voice) \in DOMAIN tables.VOICE_MAP
    THEN tables.VOICE_MAP[Lower(voice)]
    ELSE voice

speech_resolve_model(model) ==
    IF Lower(model) \in DOMAIN tables.TTS_MODEL_MAP
    THEN tables.TTS_MODEL_MAP[Lower(model)]
    ELSE model

\* routes/transcriptions.py
ASR_DEFAULT_MODEL == "qwen3-asr-flash"

\* the tables as the modules define them at import time
ShippedTables ==
    [ SYNC_MODELS |-> SYNC_MODELS, ASYNC_MODELS |-> ASYNC_MODELS,
      SYNC_ONLY_MODELS |-> SYNC_ONLY_MODELS,
      ASYNC_ONLY_MODELS |-> ASYNC_ONLY_MODELS,
      IMAGE_MODEL_MAP |-> IMAGE_MODEL_MAP, TTS_MODEL_MAP |-> TTS_MODEL_MAP,
      VOICE_MAP |-> VOICE_MAP ]

\* faulty variant: the lookups written with setdefault, which stores every
\* name it does not find
dict_setdefault(lookups) ==
    tables' =
        [ t \in DOMAIN tables |->
            IF \E l \in lookups : l[1] = t
            THEN LET l == CHOOSE l \in lookups : l[1] = t
                     d == tables[t]
                 IN [ k \in DOMAIN d \cup {l[2]} |->
                        IF k \in DOMAIN d THEN d[k] ELSE l[3] ]
            ELSE tables[t] ]

\* the effect on the tables of the lookups MAP.get(key, default) a handler
\* makes; lookups is a set of << table, key, default >>
dict_get(lookups) == tables' = tables


\* ------------------------------------------------------------------------
\* utils/common.py: credential resolution and the error envelope
\* ------------------------------------------------------------------------
NoHeader == [present |-> FALSE, value |-> <<>>]

Hdr(v) == [present |-> TRUE, value |-> v]

\* "Bearer abc", "Bearer " (prefix only), "abc" (no scheme), "" (empty header)
AuthHeaders ==
    { NoHeader,
      Hdr(BearerPrefix \o <<"a", "b", "c">>),
      Hdr(BearerPrefix),
      Hdr(<<"a", "b", "c">>),
      Hdr(<<>>) }

\* values of the environment variable DASHSCOPE_API_KEY at import time
EnvKeys == { <<>>, <<"e", "n", "v">> }

\* default of build_openai_error's error_type parameter
DefaultErrorType == "invalid_request_error"

build_openai_error(message, error_type, code) ==
    [ message |-> message,
      type |-> error_type,
      code |-> IF code \in {NoCode, ""} THEN NoCode ELSE code ]

\* raise HTTPException(status_code, detail): the response FastAPI sends
HTTPException(status_code, detail) ==
    [ kind |-> "error", status |-> status_code, message |-> detail.message,
      type |-> detail.type, code |-> detail.code, data |-> <<>> ]

\* an exception that no handler catches: Starlette answers 500 without envelope
Unhandled(what) ==
    [ kind |-> "unhandled", status |-> 500, message |-> what,
      type |-> "<none>", code |-> NoCode, data |-> <<>> ]

\* a missing required parameter of the handler signature: FastAPI answers 422
Rejected(what) ==
    [ kind |-> "rejected", status |-> 422, message |-> what,
      type |-> "<none>", code |-> NoCode, data |-> <<>> ]

Success(shape, data) ==
    [ kind |-> "success", status |-> 200, message |-> shape,
      type |-> "<none>", code |-> NoCode, data |-> data ]

NoOutcome ==
    [ kind |-> "none", status |-> 0, message |-> "", type |-> "<none>",
      code |-> NoCode, data |-> <<>> ]

\* faulty variant: the credential failure reported as 403 without a code
missing_api_key_forbidden ==
    HTTPException(403, build_openai_error("missing_api_key", DefaultErrorType, NoCode))

\* the exception extract_api_key raises when no key is available
missing_api_key_exception ==
    HTTPException(401,
        build_openai_error("missing_api_key", DefaultErrorType, "missing_api_key"))

\* faulty variant: the environment default preferred over the header
extract_api_key_env_first(authorization, default_key) ==
    IF default_key # <<>>
    THEN [ ok |-> TRUE, key |-> default_key ]
    ELSE IF authorization.present /\ authorization.value # <<>>
    THEN [ ok |-> TRUE,
           key |-> IF StartsWith(authorization.value, BearerPrefix)
                   THEN Strip(SubSeq(authorization.value, 8,
                                     Len(authorization.value)))
                   ELSE Strip(authorization.value) ]
    ELSE [ ok |-> FALSE, key |-> <<>> ]

\* extract_api_key: ok = FALSE stands for the raise
extract_api_key(authorization, default_key) ==
    IF authorization.present /\ authorization.value # <<>>
    THEN [ ok |-> TRUE,
           key |-> IF StartsWith(authorization.value, BearerPrefix)
                   THEN Strip(SubSeq(authorization.value, 8,
                                     Len(authorization.value)))
                   ELSE Strip(authorization.value) ]
    ELSE IF default_key # <<>>
         THEN [ ok |-> TRUE, key |-> default_key ]
         ELSE [ ok |-> FALSE, key |-> <<>> ]

\* faulty variants of the status clamp
clamp_status_none(status_code) == status_code

clamp_status_all(status_code) == 502

\* status_code if 400 <= status_code < 600 else 502
clamp_status(status_code) ==
    IF 400 <= status_code /\ status_code < 600 THEN status_code ELSE 502

\* faulty variant: the backend code dropped from the envelope
upstream_status_error_nocode(rsp_) ==
    HTTPException(clamp_status(rsp_.status),
        build_openai_error("dashscope_error", "upstream_error", NoCode))

\* the exception every handler raises on a non-200 backend status
upstream_status_error(rsp_) ==
    HTTPException(clamp_status(rsp_.status),
        build_openai_error("dashscope_error", "upstream_error", rsp_.code))

\* faulty variant: a raised backend call reported as 500
call_failed_error_500 ==
    HTTPException(500, build_openai_error("call_failed", "upstream_error", NoCode))

\* except Exception around the backend call
call_failed_error ==
    HTTPException(502, build_openai_error("call_failed", "upstream_error", NoCode))

\* except (AttributeError, ...) around the parse of a 200 response
parse_failed_error ==
    HTTPException(502, build_openai_error("parse_failed", "upstream_error", NoCode))

\* ------------------------------------------------------------------------
\* routes/images.py: size normalisation
\* ------------------------------------------------------------------------
\* the "size" field of the body: missing, null, or a string of characters
NoSize == [kind |-> "absent", value |-> <<>>]

NullSize == [kind |-> "null", value |-> <<>>]

SizeStr(v) == [kind |-> "str", value |-> v]

DEFAULT_SIZE == <<"1", "6", "6", "4", "*", "9", "2", "8">>

\* str.replace(a, b) for one-character a and b
Replace(s, a, b) == [ i \in 1..Len(s) |-> IF s[i] = a THEN b ELSE s[i] ]

\* faulty variant: only the lowercase separator is replaced
normalize_size_lowercase_only(size) ==
    IF size.kind # "str" \/ size.value = <<>> THEN DEFAULT_SIZE
    ELSE Replace(size.value, "x", "*")

\* _normalize_size: body.get("size") is None for a missing key and for null
normalize_size(size) ==
    IF size.kind # "str" \/ size.value = <<>> THEN DEFAULT_SIZE
    ELSE Replace(Replace(size.value, "x", "*"), "X", "*")

\* keyword arguments of the backend call that the handlers compute
NoArgs == [size |-> <<>>, voice |-> Absent]

\* ------------------------------------------------------------------------
\* Requests
\* ------------------------------------------------------------------------
NoRequest ==
    [ endpoint |-> "none", authorization |-> NoHeader, ctype |-> "none",
      json |-> "none", model |-> Absent, input |-> Absent, n |-> Absent,
      response_format |-> Absent, voice |-> Absent, file |-> "none",
        size |-> NoSize ]

\* JSON / form bodies: ctype is the declared content type, json says whether
\* the raw body is a JSON object, some other JSON value, or not JSON at all
BodyKinds ==
    { <<"json", "object">>, <<"json", "nonobject">>, <<"json", "invalid">>,
      <<"form", "object">>,
      <<"other", "object">>, <<"other", "nonobject">>, <<"other", "invalid">> }

ImageModelInputs ==
    { Absent, Null, "dall-e-3", "DALL-E-3", "qwen-image-plus", "wan2.6-t2i",
      "my-custom-model" }

ImageRequests ==
    { [ endpoint |-> "images", authorization |-> a, ctype |-> b[1],
        json |-> b[2], model |-> m, input |-> p, n |-> n,
        response_format |-> f, voice |-> Absent, file |-> "none",
        size |-> NoSize ] :
      a \in AuthHeaders, b \in BodyKinds, m \in ImageModelInputs,
      p \in {Absent, "", "a cat"}, n \in {Absent, "2", "abc"},
      f \in {Absent, "b64_json"} }

SpeechRequests ==
    { [ endpoint |-> "speech", authorization |-> a, ctype |-> b[1],
        json |-> b[2], model |-> m, input |-> p, n |-> Absent,
        response_format |-> f, voice |-> v, file |-> "none",
        size |-> NoSize ] :
      a \in AuthHeaders, b \in BodyKinds,
      m \in {Absent, "TTS-1-HD", "qwen-tts"},
      p \in {Absent, "", "hello"}, f \in {Absent, "wav"},
      v \in {Absent, "", "Alloy", "MyVoice"} }

TranscriptionRequests ==
    { [ endpoint |-> "transcriptions", authorization |-> a, ctype |-> "form",
        json |-> "object", model |-> Absent, input |-> Absent, n |-> Absent,
        response_format |-> f, voice |-> Absent, file |-> fl,
        size |-> NoSize ] :
      a \in AuthHeaders, f \in {Absent, "text", "srt"},
      fl \in {"absent", "empty", "bytes"} }

Requests == ImageRequests \cup SpeechRequests \cup TranscriptionRequests

\* size values of the body: absent, null, empty, and WxH strings
SizeInputs ==
    { NoSize, NullSize, SizeStr(<<>>),
      SizeStr(<<"1", "6", "6", "4", "x", "9", "2", "8">>),
      SizeStr(<<"1", "6", "6", "4", "X", "9", "2", "8">>),
      SizeStr(<<"5", "1", "2", "*", "5", "1", "2">>),
      SizeStr(<<"x", "X">>) }

VoiceInputs == { Absent, Null, "", "alloy", "Alloy", "Chelsie", "MyVoice" }

FormatInputs ==
    { Absent, "", "text", "verbose_json", "srt", "SRT", "vtt", "Vtt", "json",
      "XML" }

\* well-formed requests that carry a credential, with the optional fields
\* varied
FieldRequests ==
    { [ endpoint |-> "images", authorization |-> Hdr(BearerPrefix \o <<"a", "b", "c">>),
        ctype |-> "json", json |-> "object", model |-> m, input |-> "a cat",
        n |-> Absent, response_format |-> Absent, voice |-> Absent,
        file |-> "none", size |-> sz ] :
      m \in ImageModelInputs \ {Null}, sz \in SizeInputs }
    \cup
    { [ endpoint |-> "speech", authorization |-> Hdr(BearerPrefix \o <<"a", "b", "c">>),
        ctype |-> "json", json |-> "object", model |-> m, input |-> p,
        n |-> Absent, response_format |-> Absent, voice |-> v,
        file |-> "none", size |-> NoSize ] :
      m \in {Absent, "tts-1", "TTS-1-HD", "qwen-tts", "my-tts"},
      p \in {"", "hello"}, v \in VoiceInputs }
    \cup
    { [ endpoint |-> "transcriptions",
        authorization |-> Hdr(BearerPrefix \o <<"a", "b", "c">>),
        ctype |-> "form", json |-> "object", model |-> Absent, input |-> Absent,
        n |-> Absent, response_format |-> f, voice |-> Absent,
        file |-> "bytes", size |-> NoSize ] :
      f \in FormatInputs }

\* the requests drawn when several are served concurrently
LeanRequests ==
    { q \in Requests :
        /\ q.authorization \in {NoHeader, Hdr(BearerPrefix \o <<"a", "b", "c">>)}
        /\ q.ctype \in {"json", "form"} /\ q.json = "object"
        /\ q.model \in {Absent, "wan2.6-t2i", "DALL-E-3", "TTS-1-HD"}
        /\ q.input \in {Absent, "a cat", "hello"}
        /\ q.n = Absent /\ q.response_format = Absent /\ q.voice = Absent
        /\ q.file \in {"none", "bytes"}
        /\ (q.endpoint # "transcriptions" => q.ctype = "json")
        /\ (q.authorization = NoHeader => q.endpoint = "images" /\ q.input = "a cat"
                                          /\ q.model = Absent) }


\* ------------------------------------------------------------------------
\* Backend responses (the vendor is a black box: any of these may come back)
\* ------------------------------------------------------------------------
\* the blocking SDK call raised (timeout, connection failure, ...)
Raised ==
    [ kind |-> "raise", status |-> 0, code |-> NoCode, shape |-> "none",
      items |-> <<>> ]

ErrorRsp(s, c) ==
    [ kind |-> "status", status |-> s, code |-> c, shape |-> "none",
      items |-> <<>> ]

OkRsp(shape, items) ==
    [ kind |-> "status", status |-> 200, code |-> "", shape |-> shape,
      items |-> items ]

NoResponse ==
    [ kind |-> "none", status |-> 0, code |-> NoCode, shape |-> "none",
      items |-> <<>> ]

\* non-success statuses around the edges of [400, 600)
ErrorStatuses == { 302, 399, 400, 429, 599, 600 }

BackendCodes == { NoCode, "", "Throttling" }

ErrorResponses == { ErrorRsp(s, c) : s \in ErrorStatuses, c \in BackendCodes }

SeqsUpTo(S, k) == UNION { [1..m -> S] : m \in 0..k }

AssetUrl == "https://oss/img.png"

\* ImageSynthesis.call: output.results is unreadable ("no_results": output or
\* results is None), lacks the key ("results_keyerror"), or is a list of items
ImageSynthesisResponses ==
    {Raised} \cup ErrorResponses
    \cup { OkRsp("no_results", <<>>), OkRsp("results_keyerror", <<>>) }
    \cup { OkRsp("results", it) : it \in SeqsUpTo({NoUrl, AssetUrl}, MaxAssets) }

\* MultiModalConversation.call for images: output.choices unreadable, or the
\* content items of the choices
ImageConversationResponses ==
    {Raised} \cup ErrorResponses
    \cup { OkRsp("no_choices", <<>>) }
    \cup { OkRsp("choices", it) : it \in SeqsUpTo({NoImage, AssetUrl}, MaxAssets) }

\* MultiModalConversation.call for speech: output.audio
SpeechResponses ==
    {Raised} \cup ErrorResponses
    \cup { OkRsp(sh, <<>>) : sh \in {"no_audio", "neither", "data", "bad_data", "url"} }

\* MultiModalConversation.call for transcription: output.choices[0]...["text"]
TranscriptionResponses ==
    {Raised} \cup ErrorResponses
    \cup { OkRsp(sh, <<>>) : sh \in {"no_choices", "no_text", "null_text", "text"} }

Responses ==
    [ c \in {"ImageSynthesis", "ImageConversation", "Speech", "Transcription"} |->
        CASE c = "ImageSynthesis" -> ImageSynthesisResponses
          [] c = "ImageConversation" -> ImageConversationResponses
          [] c = "Speech" -> SpeechResponses
          [] c = "Transcription" -> TranscriptionResponses ]

LeanResponses ==
    [ c \in DOMAIN Responses |->
        CASE c = "ImageSynthesis" ->
               { ErrorRsp(429, "Throttling"), OkRsp("results", <<AssetUrl>>) }
          [] c = "ImageConversation" -> { OkRsp("choices", <<AssetUrl>>) }
          [] c = "Speech" -> { OkRsp("url", <<>>), OkRsp("data", <<>>) }
          [] c = "Transcription" -> { Raised, OkRsp("text", <<>>) } ]

\* canonical texts the backend may return, as sequences of characters
Texts == { <<>>, <<"h", "e", "l", "l", "o">>, <<"a", "\n", "-", "-", ">", "b">> }

\* the backend answers drawn when the request fields are varied
FieldResponses ==
    [ c \in DOMAIN Responses |->
        CASE c = "ImageSynthesis" -> { OkRsp("results", <<AssetUrl>>) }
          [] c = "ImageConversation" ->
               { ErrorRsp(429, "Throttling"), OkRsp("choices", <<AssetUrl>>) }
          [] c = "Speech" -> { OkRsp("url", <<>>), OkRsp("data", <<>>) }
          [] c = "Transcription" ->
               { ErrorRsp(429, "Throttling") } \cup { OkRsp("text", t) : t \in Texts } ]

\* outcomes of an HTTPS GET of an asset: it fails, or returns bytes
Downloads == { "fail", "empty", "bytes" }

\* ------------------------------------------------------------------------
\* State
\* ------------------------------------------------------------------------
VARIABLES
    DEFAULT_API_KEY,  \* utils.common.DEFAULT_API_KEY, read from the environment
    req,              \* the wire request held by each slot
    pc,               \* position of each slot's handler
    api_key,          \* handler local: the resolved credential
    ds_model,         \* handler local: the resolved backend model
    args,             \* handler locals passed to the backend call (size, voice)
    calls,            \* backend inference calls issued for the request so far
    rsp,              \* what the backend call returned or raised
    result,           \* handler local: parsed asset list (images)
    out,              \* the HTTP response sent for the request
    loop,             \* slot whose handler occupies the event-loop thread, 0 if free
    overlap           \* slots whose executor call was in flight when this one arrived

vars ==
    << DEFAULT_API_KEY, tables, req, pc, api_key, ds_model, args, calls, rsp,
       result, out, loop, overlap >>

InitWith(keys) ==
    /\ DEFAULT_API_KEY \in keys
    /\ tables = ShippedTables
    /\ req = [r \in Reqs |-> NoRequest]
    /\ pc = [r \in Reqs |-> "idle"]
    /\ api_key = [r \in Reqs |-> <<>>]
    /\ ds_model = [r \in Reqs |-> Absent]
    /\ args = [r \in Reqs |-> NoArgs]
    /\ calls = [r \in Reqs |-> <<>>]
    /\ rsp = [r \in Reqs |-> NoResponse]
    /\ result = [r \in Reqs |-> <<>>]
    /\ out = [r \in Reqs |-> NoOutcome]
    /\ loop = 0
    /\ overlap = [r \in Reqs |-> {}]

Init == InitWith(EnvKeys)

\* the handler of slot r ends with response o
Respond(r, o) ==
    /\ out' = [out EXCEPT ![r] = o]
    /\ pc' = [pc EXCEPT ![r] = "done"]

\* slots whose blocking call sits in the executor
InExecutor == { q \in Reqs : pc[q] = "inflight" }

\* uvicorn accepts a request and starts its handler on the event loop
Arrive(r, RS) ==
    /\ pc[r] = "idle"
    /\ loop = 0
    /\ \E q \in RS : req' = [req EXCEPT ![r] = q]
    /\ pc' = [pc EXCEPT ![r] = "start"]
    /\ overlap' = [overlap EXCEPT ![r] = InExecutor]
    /\ UNCHANGED << DEFAULT_API_KEY, tables, api_key, ds_model, args, calls, rsp, result, out, loop >>

\* the response has been sent; the slot is free for the next request
Finish(r) ==
    /\ pc[r] = "done"
    /\ loop = 0
    /\ req' = [req EXCEPT ![r] = NoRequest]
    /\ pc' = [pc EXCEPT ![r] = "idle"]
    /\ api_key' = [api_key EXCEPT ![r] = <<>>]
    /\ ds_model' = [ds_model EXCEPT ![r] = Absent]
    /\ args' = [args EXCEPT ![r] = NoArgs]
    /\ calls' = [calls EXCEPT ![r] = <<>>]
    /\ rsp' = [rsp EXCEPT ![r] = NoResponse]
    /\ result' = [result EXCEPT ![r] = <<>>]
    /\ out' = [out EXCEPT ![r] = NoOutcome]
    /\ overlap' = [overlap EXCEPT ![r] = {}]
    /\ UNCHANGED << DEFAULT_API_KEY, tables, loop >>

\* faulty variant: an undeclared content type reported as a JSON error
ParseBody_other_as_invalid_json(r) ==
    IF ~extract_api_key(req[r].authorization, DEFAULT_API_KEY).ok
    THEN missing_api_key_exception
    ELSE IF req[r].json = "invalid" /\ req[r].ctype \in {"json", "other"}
    THEN HTTPException(400, build_openai_error("invalid_json", DefaultErrorType, NoCode))
    ELSE NoOutcome

\* steps 1-2 of the JSON/form handlers: credential, then body parsing.
\* Yields the error response, or NoOutcome when the body was parsed.
ParseBody(r) ==
    IF ~extract_api_key(req[r].authorization, DEFAULT_API_KEY).ok
    THEN missing_api_key_exception
    ELSE IF req[r].ctype = "json" /\ req[r].json = "invalid"
    THEN HTTPException(400, build_openai_error("invalid_json", DefaultErrorType, NoCode))
    ELSE IF req[r].ctype = "other" /\ req[r].json = "invalid"
    THEN HTTPException(400,
             build_openai_error("unsupported_content_type", DefaultErrorType, NoCode))
    ELSE NoOutcome


\* ------------------------------------------------------------------------
\* POST /v1/images/generations
\* ------------------------------------------------------------------------
\* steps 1-2: credential and body
images_generations_parse(r) ==
    /\ pc[r] = "start" /\ req[r].endpoint = "images"
    /\ loop = 0
    /\ api_key' = [api_key EXCEPT
           ![r] = extract_api_key(req[r].authorization, DEFAULT_API_KEY).key]
    /\ IF ParseBody(r).kind # "none"
       THEN Respond(r, ParseBody(r))
       ELSE /\ pc' = [pc EXCEPT ![r] = "parsed"]
            /\ UNCHANGED out
    /\ UNCHANGED << DEFAULT_API_KEY, tables, req, ds_model, args, calls, rsp, result, loop, overlap >>

\* faulty variant: the blocking call made on the event-loop thread itself
run_on_event_loop(r, conv) ==
    /\ calls' = [calls EXCEPT ![r] = Append(@, conv)]
    /\ pc' = [pc EXCEPT ![r] = "inflight"]
    /\ loop' = r

\* await loop.run_in_executor(None, _blocking_call): the call goes to a worker
\* thread of the default executor and the handler is suspended
run_in_executor(r, conv) ==
    /\ calls' = [calls EXCEPT ![r] = Append(@, conv)]
    /\ pc' = [pc EXCEPT ![r] = "inflight"]
    /\ loop' = loop

\* steps 3-4: parameters, validation, alias resolution, convention choice
images_generations_dispatch(r) ==
    /\ pc[r] = "parsed" /\ req[r].endpoint = "images"
    /\ loop = 0
    /\ IF req[r].json = "nonobject"
       THEN \* body.get on a list, string or number: AttributeError
            /\ Respond(r, Unhandled("AttributeError"))
            /\ UNCHANGED << tables, ds_model, args, calls, loop >>
       ELSE IF req[r].n = "abc"
       THEN \* int(body.get("n", 1)): ValueError
            /\ Respond(r, Unhandled("ValueError"))
            /\ UNCHANGED << tables, ds_model, args, calls, loop >>
       ELSE IF ~Truthy(req[r].input)
       THEN /\ Respond(r, HTTPException(400,
                   build_openai_error("missing_prompt", DefaultErrorType, NoCode)))
            /\ UNCHANGED << tables, ds_model, args, calls, loop >>
       ELSE IF req[r].model = Null
       THEN \* None.lower(): AttributeError
            /\ Respond(r, Unhandled("AttributeError"))
            /\ UNCHANGED << tables, ds_model, args, calls, loop >>
       ELSE LET model_raw == IF req[r].model = Absent THEN IMAGE_DEFAULT_MODEL
                             ELSE req[r].model
                m == images_resolve_model(model_raw)
            IN /\ dict_get({ << "IMAGE_MODEL_MAP", Lower(model_raw), model_raw >> })
               /\ ds_model' = [ds_model EXCEPT ![r] = m]
               /\ args' = [args EXCEPT ![r].size = normalize_size(req[r].size)]
               /\ run_in_executor(r, IF use_async_api(m) THEN "ImageSynthesis"
                                     ELSE "ImageConversation")
               /\ UNCHANGED out
    /\ UNCHANGED << DEFAULT_API_KEY, req, api_key, rsp, result, overlap >>

\* the worker thread's blocking call comes back (or raises)
image_call_returns(r, RSP) ==
    /\ pc[r] = "inflight"
    /\ \E x \in RSP[calls[r][Len(calls[r])]] : rsp' = [rsp EXCEPT ![r] = x]
    /\ pc' = [pc EXCEPT ![r] = "returned"]
    /\ overlap' = [q \in Reqs |-> overlap[q] \ {r}]
    /\ UNCHANGED << DEFAULT_API_KEY, tables, req, api_key, ds_model, args, calls, result, out, loop >>

\* _call_async_api: the result list built from rsp.output.results
parse_async_results(items) ==
    [ i \in 1..Len(items) |-> [ url |-> IF items[i] = NoUrl THEN "" ELSE items[i] ] ]

HasImage(x) == x # NoImage

\* _call_sync_api: the result list built from the choices' content items
parse_sync_results(items) ==
    LET imgs == SelectSeq(items, HasImage)
    IN [ i \in 1..Len(imgs) |-> [ url |-> imgs[i] ] ]

\* faulty variant: a failed convention followed by a call of the other one
image_failure_fallback(r, e) ==
    IF Len(calls[r]) = 1
    THEN /\ calls' = [calls EXCEPT ![r] =
               Append(@, IF calls[r][1] = "ImageSynthesis" THEN "ImageConversation"
                         ELSE "ImageSynthesis")]
         /\ pc' = [pc EXCEPT ![r] = "inflight"]
         /\ UNCHANGED out
    ELSE Respond(r, e) /\ UNCHANGED calls

\* the HTTPException leaves images_generations: no second attempt
image_failure(r, e) ==
    /\ Respond(r, e)
    /\ UNCHANGED calls

\* the handler resumes after the executor call: status check and parsing
images_generations_resume(r) ==
    /\ pc[r] = "returned" /\ req[r].endpoint = "images"
    /\ loop = 0
    /\ LET conv == calls[r][Len(calls[r])]
           x == rsp[r]
       IN IF x.kind = "raise"
          THEN image_failure(r, call_failed_error) /\ UNCHANGED result
          ELSE IF x.status # 200
          THEN image_failure(r, upstream_status_error(x)) /\ UNCHANGED result
          ELSE IF x.shape \in {"no_results", "no_choices"}
          THEN image_failure(r, parse_failed_error) /\ UNCHANGED result
          ELSE IF x.shape = "results_keyerror"
          THEN \* KeyError is not caught in _call_async_api but by the caller
               image_failure(r, call_failed_error) /\ UNCHANGED result
          ELSE IF conv = "ImageConversation" /\ parse_sync_results(x.items) = <<>>
          THEN image_failure(r, HTTPException(502,
                   build_openai_error("no_image", "upstream_error", NoCode)))
               /\ UNCHANGED result
          ELSE /\ result' = [result EXCEPT ![r] =
                      IF conv = "ImageSynthesis" THEN parse_async_results(x.items)
                      ELSE parse_sync_results(x.items)]
               /\ pc' = [pc EXCEPT ![r] = "respond"]
               /\ UNCHANGED << out, calls >>
    /\ UNCHANGED << DEFAULT_API_KEY, tables, req, api_key, ds_model, args, rsp, loop, overlap >>

\* str(body.get("response_format", "url")).lower()
image_response_format(q) ==
    IF q.response_format = Absent THEN "url" ELSE Lower(q.response_format)

\* faulty variant: a b64_json entry even when the fetch gave nothing
image_entry_always_b64(fmt, item, dl) ==
    IF fmt = "b64_json"
    THEN [ key |-> "b64_json", url |-> item.url, fetch |-> dl ]
    ELSE [ key |-> "url", url |-> item.url, fetch |-> dl ]

\* one entry of the response's data list; dl is the outcome of the asset fetch
\* (_download_as_base64 returns None on failure, and `if b64:` also rejects
\* the empty encoding of an empty body). fetch records the GET issued for the
\* entry, "none" when there was none; it is not part of the wire response.
image_entry(fmt, item, dl) ==
    IF fmt = "b64_json" /\ dl = "bytes"
    THEN [ key |-> "b64_json", url |-> item.url, fetch |-> dl ]
    ELSE [ key |-> "url", url |-> item.url, fetch |-> dl ]

\* step 5: the data list (with the asset fetches for b64_json) and the response
images_generations_respond(r) ==
    /\ pc[r] = "respond" /\ req[r].endpoint = "images"
    /\ loop = 0
    /\ LET fmt == image_response_format(req[r])
           res == result[r]
           \* no fetch unless b64_json; the fetch of an empty URL always fails
           DlOf(i) == IF fmt # "b64_json" THEN {"none"}
                      ELSE IF res[i].url = "" THEN {"fail"}
                      ELSE Downloads
       IN \E dl \in [1..Len(res) -> Downloads \cup {"none"}] :
            /\ \A i \in 1..Len(res) : dl[i] \in DlOf(i)
            /\ Respond(r, Success("images",
                   [ i \in 1..Len(res) |-> image_entry(fmt, res[i], dl[i]) ]))
    /\ UNCHANGED << DEFAULT_API_KEY, tables, req, api_key, ds_model, args, calls, rsp, result,
                    loop, overlap >>


\* ------------------------------------------------------------------------
\* POST /v1/audio/speech
\* ------------------------------------------------------------------------
\* steps 1-2: credential and body
audio_speech_parse(r) ==
    /\ pc[r] = "start" /\ req[r].endpoint = "speech"
    /\ loop = 0
    /\ api_key' = [api_key EXCEPT
           ![r] = extract_api_key(req[r].authorization, DEFAULT_API_KEY).key]
    /\ IF ParseBody(r).kind # "none"
       THEN Respond(r, ParseBody(r))
       ELSE /\ pc' = [pc EXCEPT ![r] = "parsed"]
            /\ UNCHANGED out
    /\ UNCHANGED << DEFAULT_API_KEY, tables, req, ds_model, args, calls, rsp, result, loop, overlap >>

\* dashscope.MultiModalConversation.call(...) written without await: the SDK
\* call runs on the event-loop thread, which it occupies until it returns
blocking_call(r, conv) ==
    /\ calls' = [calls EXCEPT ![r] = Append(@, conv)]
    /\ pc' = [pc EXCEPT ![r] = "blocking"]
    /\ loop' = r

\* faulty variant: an omitted or empty voice is sent as it is
speech_voice_no_default(q) ==
    resolve_voice(IF q.voice \in {Absent, Null} THEN "" ELSE q.voice)

\* voice = body.get("voice", "") or ""; DEFAULT_VOICE when that is empty;
\* then _resolve_voice
speech_voice(q) ==
    resolve_voice(IF ~Truthy(q.voice) THEN DEFAULT_VOICE ELSE q.voice)

\* parameters, validation, alias resolution, then the backend call starts
audio_speech_call(r) ==
    /\ pc[r] = "parsed" /\ req[r].endpoint = "speech"
    /\ loop = 0
    /\ IF req[r].json = "nonobject"
       THEN /\ Respond(r, Unhandled("AttributeError"))
            /\ UNCHANGED << tables, ds_model, args, calls, loop >>
       ELSE IF ~Truthy(req[r].input)
       THEN /\ Respond(r, HTTPException(400,
                   build_openai_error("missing_input", DefaultErrorType, NoCode)))
            /\ UNCHANGED << tables, ds_model, args, calls, loop >>
       ELSE LET model == IF req[r].model = Absent THEN TTS_DEFAULT_MODEL
                         ELSE req[r].model
                voice == IF ~Truthy(req[r].voice) THEN DEFAULT_VOICE
                         ELSE req[r].voice
            IN /\ dict_get({ << "TTS_MODEL_MAP", Lower(model), model >>,
                             << "VOICE_MAP", Lower(voice), voice >> })
               /\ ds_model' = [ds_model EXCEPT ![r] = speech_resolve_model(model)]
               /\ args' = [args EXCEPT ![r].voice = speech_voice(req[r])]
               /\ blocking_call(r, "Speech")
               /\ UNCHANGED out
    /\ UNCHANGED << DEFAULT_API_KEY, req, api_key, rsp, result, overlap >>

\* the call returns or raises; status check and extraction of output.audio
audio_speech_returns(r, RSP) ==
    /\ pc[r] = "blocking" /\ req[r].endpoint = "speech"
    /\ loop = r
    /\ loop' = 0
    /\ \E x \in RSP["Speech"] :
         /\ rsp' = [rsp EXCEPT ![r] = x]
         /\ IF x.kind = "raise"
            THEN Respond(r, call_failed_error)
            ELSE IF x.status # 200
            THEN Respond(r, upstream_status_error(x))
            ELSE IF x.shape \in {"no_audio", "neither", "bad_data"}
            THEN \* ValueError (binascii.Error for undecodable data)
                 Respond(r, parse_failed_error)
            ELSE IF x.shape = "data"
            THEN Respond(r, Success("audio", <<>>))
            ELSE \* audio.url: await client.get(audio_url)
                 /\ pc' = [pc EXCEPT ![r] = "download"]
                 /\ UNCHANGED out
    /\ UNCHANGED << DEFAULT_API_KEY, tables, req, api_key, ds_model, args, calls, result, overlap >>

\* the audio fetch completes
audio_speech_download(r) ==
    /\ pc[r] = "download" /\ req[r].endpoint = "speech"
    /\ loop = 0
    /\ \E d \in {"ok", "http_error", "invalid_url"} :
         Respond(r, CASE d = "ok" -> Success("audio", <<>>)
                      [] d = "http_error" ->
                           HTTPException(502, build_openai_error("download_failed",
                                                   "upstream_error", NoCode))
                      [] d = "invalid_url" ->
                           \* httpx.InvalidURL is not an httpx.HTTPError
                           Unhandled("InvalidURL"))
    /\ UNCHANGED << DEFAULT_API_KEY, tables, req, api_key, ds_model, args, calls, rsp, result,
                    loop, overlap >>

\* ------------------------------------------------------------------------
\* POST /v1/audio/transcriptions
\* ------------------------------------------------------------------------
\* faulty variant: the output format compared as written
transcription_shape_case_sensitive(q) ==
    LET fmt == IF q.response_format \in {Absent, Null, ""} THEN "json"
               ELSE q.response_format
    IN IF fmt \in {"text", "verbose_json", "srt", "vtt"} THEN fmt ELSE "json"

\* (response_format or "json").lower(), and the shape it selects
transcription_shape(q) ==
    LET fmt == IF q.response_format \in {Absent, Null, ""} THEN "json"
               ELSE Lower(q.response_format)
    IN IF fmt \in {"text", "verbose_json", "srt", "vtt"} THEN fmt ELSE "json"

\* faulty variant: the SubRip cue written with WebVTT's decimal points
format_srt_dots(text) ==
       << "1", "\n", "0", "0", ":", "0", "0", ":", "0", "0", ".", "0", "0",
          "0", " ", "-", "-", ">", " ", "9", "9", ":", "5", "9", ":", "5",
          "9", ".", "9", "9", "9", "\n" >>
    \o text \o << "\n" >>

\* f"1\n00:00:00,000 --> 99:59:59,999\n{text}\n", a sequence of characters
format_srt(text) ==
       << "1", "\n", "0", "0", ":", "0", "0", ":", "0", "0", ",", "0", "0",
          "0", " ", "-", "-", ">", " ", "9", "9", ":", "5", "9", ":", "5",
          "9", ",", "9", "9", "9", "\n" >>
    \o text \o << "\n" >>

\* f"WEBVTT\n\n00:00:00.000 --> 99:59:59.999\n{text}\n"
format_vtt(text) ==
       << "W", "E", "B", "V", "T", "T", "\n", "\n", "0", "0", ":", "0", "0",
          ":", "0", "0", ".", "0", "0", "0", " ", "-", "-", ">", " ", "9",
          "9", ":", "5", "9", ":", "5", "9", ".", "9", "9", "9", "\n" >>
    \o text \o << "\n" >>

\* duration is the measured time of the call, which is not modelled
format_verbose_json(text) ==
    [ task |-> "transcribe", language |-> "unknown", duration |-> "elapsed",
      text |-> text, segments |-> <<>>, words |-> <<>> ]

\* the body returned for each shape
transcription_body(shape, text) ==
    CASE shape = "text" -> text
      [] shape = "verbose_json" -> format_verbose_json(text)
      [] shape = "srt" -> format_srt(text)
      [] shape = "vtt" -> format_vtt(text)
      [] OTHER -> [ text |-> text ]

\* signature check, credential, file read, then the backend call starts
audio_transcriptions_start(r) ==
    /\ pc[r] = "start" /\ req[r].endpoint = "transcriptions"
    /\ loop = 0
    /\ IF req[r].file = "absent"
       THEN \* file: UploadFile = File(...) is required
            /\ Respond(r, Rejected("file"))
            /\ UNCHANGED << api_key, calls, loop >>
       ELSE IF ~extract_api_key(req[r].authorization, DEFAULT_API_KEY).ok
       THEN /\ Respond(r, missing_api_key_exception)
            /\ UNCHANGED << api_key, calls, loop >>
       ELSE IF req[r].file = "empty"
       THEN /\ api_key' = [api_key EXCEPT
                  ![r] = extract_api_key(req[r].authorization, DEFAULT_API_KEY).key]
            /\ Respond(r, HTTPException(400,
                   build_openai_error("empty_file", DefaultErrorType, NoCode)))
            /\ UNCHANGED << calls, loop >>
       ELSE /\ api_key' = [api_key EXCEPT
                  ![r] = extract_api_key(req[r].authorization, DEFAULT_API_KEY).key]
            /\ blocking_call(r, "Transcription")
            /\ UNCHANGED out
    /\ UNCHANGED << DEFAULT_API_KEY, tables, req, ds_model, args, rsp, result, overlap >>

\* the call returns or raises; status check, text extraction, output format
audio_transcriptions_returns(r, RSP) ==
    /\ pc[r] = "blocking" /\ req[r].endpoint = "transcriptions"
    /\ loop = r
    /\ loop' = 0
    /\ \E x \in RSP["Transcription"] :
         /\ rsp' = [rsp EXCEPT ![r] = x]
         /\ Respond(r,
              IF x.kind = "raise" THEN call_failed_error
              ELSE IF x.status # 200 THEN upstream_status_error(x)
              ELSE IF x.shape \in {"no_choices", "no_text"} THEN parse_failed_error
              ELSE IF x.shape = "null_text"
              THEN \* "text": null passes the extraction; len(text) in the log
                   \* call raises TypeError outside any try
                   Unhandled("TypeError")
              ELSE Success(transcription_shape(req[r]),
                           transcription_body(transcription_shape(req[r]), x.items)))
    /\ UNCHANGED << DEFAULT_API_KEY, tables, req, api_key, ds_model, args, calls, result, overlap >>

\* ------------------------------------------------------------------------
\* Specifications
\* ------------------------------------------------------------------------
Handler(r, RSP) ==
    \/ images_generations_parse(r)
    \/ images_generations_dispatch(r)
    \/ image_call_returns(r, RSP)
    \/ images_generations_resume(r)
    \/ images_generations_respond(r)
    \/ audio_speech_parse(r)
    \/ audio_speech_call(r)
    \/ audio_speech_returns(r, RSP)
    \/ audio_speech_download(r)
    \/ audio_transcriptions_start(r)
    \/ audio_transcriptions_returns(r, RSP)
    \/ Finish(r)

\* one request at a time, over the full input and response domains
Next ==
    \/ Arrive(1, Requests)
    \/ Handler(1, Responses)

Spec == Init /\ [][Next]_vars

\* NumReq requests served concurrently, over the lean domains
NextConc ==
    \E r \in Reqs :
        \/ Arrive(r, LeanRequests)
        \/ Handler(r, LeanResponses)

SpecConc == Init /\ [][NextConc]_vars

\* one request at a time, over the varied request fields
NextFields ==
    \/ Arrive(1, FieldRequests)
    \/ Handler(1, FieldResponses)

SpecFields == Init /\ [][NextFields]_vars


\* ------------------------------------------------------------------------
\* Properties
\* ------------------------------------------------------------------------
Done(r) == pc[r] = "done"

\* the image request of slot r has been dispatched
Dispatched(r) == req[r].endpoint = "images" /\ ds_model[r] # Absent

\* the credential step of slot r's handler finds a key
HasKey(r) == extract_api_key(req[r].authorization, DEFAULT_API_KEY).ok

\* C1: an image request whose resolved backend model is async-only is sent
\* through ImageSynthesis and only through it; one whose resolved model is in
\* the sync set (also when it is in the async set too) is sent through
\* MultiModalConversation and only through it.
C1_ConventionByCapability ==
    \A r \in Reqs :
        Dispatched(r) =>
            /\ ds_model[r] \in ASYNC_ONLY_MODELS => calls[r] = <<"ImageSynthesis">>
            /\ ds_model[r] \in SYNC_MODELS => calls[r] = <<"ImageConversation">>

C1_Witness ==
    \E r \in Reqs :
        /\ Done(r) /\ Dispatched(r)
        /\ ds_model[r] \in SYNC_MODELS \cap ASYNC_MODELS
        /\ calls[r] = <<"ImageConversation">>

\* C2: an image request whose resolved backend model is in none of the
\* capability sets is sent through the async convention.
C2_UnclassifiedIsAsync ==
    \A r \in Reqs :
        ( /\ Dispatched(r)
          /\ ds_model[r] \notin SYNC_MODELS \cup ASYNC_MODELS
                                 \cup SYNC_ONLY_MODELS \cup ASYNC_ONLY_MODELS )
        => calls[r] = <<"ImageSynthesis">>

C2_Witness ==
    \E r \in Reqs :
        /\ Done(r) /\ req[r].model = "my-custom-model"
        /\ ds_model[r] = "my-custom-model"
        /\ calls[r] = <<"ImageSynthesis">>

\* the backend call of slot r failed: it raised, reported a non-success
\* status, or its result could not be used
BackendFailed(r) ==
    /\ rsp[r].kind # "none"
    /\ \/ rsp[r].kind = "raise"
       \/ rsp[r].status # 200
       \/ out[r].kind = "error"

\* C3: at most one backend inference call is issued for a request, also after
\* the call failed, and an image request never has both conventions invoked.
C3_AtMostOneCall ==
    \A r \in Reqs : Len(calls[r]) <= 1

C3_Witness ==
    \E r \in Reqs :
        /\ Done(r) /\ req[r].endpoint = "images"
        /\ BackendFailed(r) /\ out[r].kind = "error"
        /\ Len(calls[r]) = 1

\* the request's single required field is missing or empty (the body itself
\* being a JSON object or a form)
RequiredFieldMissing(r) ==
    /\ req[r].json = "object"
    /\ IF req[r].endpoint = "transcriptions"
       THEN req[r].file \in {"absent", "empty"}
       ELSE ~Truthy(req[r].input)

\* C4: a request (with a usable credential) whose single required field is
\* missing or empty ends with HTTP 400 invalid_request_error and without any
\* backend call, whatever its other fields.
C4_MissingFieldIs400 ==
    \A r \in Reqs :
        (Done(r) /\ HasKey(r) /\ RequiredFieldMissing(r)) =>
            /\ out[r].kind = "error" /\ out[r].status = 400
            /\ out[r].type = "invalid_request_error"
            /\ calls[r] = <<>>

\* credential resolution ran for slot r without a header and without an
\* environment default
NoCredential(r) ==
    /\ Done(r)
    /\ ~req[r].authorization.present /\ DEFAULT_API_KEY = <<>>
    /\ req[r].file # "absent"

\* C5 as stated: without Authorization header and without environment default
\* the request fails with 401, type permission_error, code missing_api_key.
C5_MissingKeyIsPermissionError ==
    \A r \in Reqs :
        NoCredential(r) =>
            /\ out[r].kind = "error" /\ out[r].status = 401
            /\ out[r].type = "permission_error"
            /\ out[r].code = "missing_api_key"

\* C5 amended: without Authorization header and without environment default
\* the request fails with 401, type invalid_request_error, code
\* missing_api_key, and no backend call is made.
C5_MissingKeyIs401 ==
    \A r \in Reqs :
        NoCredential(r) =>
            /\ out[r].kind = "error" /\ out[r].status = 401
            /\ out[r].type = "invalid_request_error"
            /\ out[r].code = "missing_api_key"
            /\ calls[r] = <<>>

C5_Witness ==
    \E r \in Reqs : NoCredential(r) /\ out[r].status = 401

\* C6: every response that is not a success has a status in [400,599], and a
\* backend non-success status outside that range is answered with 502.
C6_ErrorStatusInRange ==
    \A r \in Reqs :
        /\ out[r].kind \in {"error", "unhandled", "rejected"} =>
               (400 <= out[r].status /\ out[r].status <= 599)
        /\ ( /\ Done(r) /\ rsp[r].kind = "status" /\ rsp[r].status # 200
             /\ ~(400 <= rsp[r].status /\ rsp[r].status <= 599) )
           => (out[r].kind = "error" /\ out[r].status = 502)

C6_Witness ==
    \E r \in Reqs :
        /\ Done(r) /\ rsp[r].kind = "status" /\ rsp[r].status = 600
        /\ out[r].status = 502

\* C7: a backend non-success status s in [400,599] is answered with exactly
\* status s, type upstream_error and the backend's code (no code key when the
\* backend gave none or an empty one), on every endpoint and convention.
C7_UpstreamStatusPassthrough ==
    \A r \in Reqs :
        ( /\ Done(r) /\ rsp[r].kind = "status"
          /\ 400 <= rsp[r].status /\ rsp[r].status <= 599 )
        => /\ out[r].kind = "error"
           /\ out[r].status = rsp[r].status
           /\ out[r].type = "upstream_error"
           /\ IF rsp[r].code \in {NoCode, ""}
              THEN out[r].code = NoCode
              ELSE out[r].code = rsp[r].code

C7_Witness ==
    \E r \in Reqs :
        /\ Done(r) /\ calls[r] = <<"ImageSynthesis">>
        /\ rsp[r].kind = "status" /\ rsp[r].status = 429
        /\ rsp[r].code = "Throttling"
        /\ out[r].status = 429 /\ out[r].code = "Throttling"

\* the 200 response of slot r lacks a field the normalizer needs
LacksNeededField(r) ==
    /\ rsp[r].kind = "status" /\ rsp[r].status = 200
    /\ CASE calls[r] = <<"Speech">> -> rsp[r].shape \in {"no_audio", "neither"}
         [] calls[r] = <<"Transcription">> ->
              rsp[r].shape \in {"no_choices", "no_text", "null_text"}
         [] calls[r] = <<"ImageSynthesis">> ->
              \/ rsp[r].shape \in {"no_results", "results_keyerror"}
              \/ rsp[r].items = <<>>
              \/ \E i \in 1..Len(rsp[r].items) : rsp[r].items[i] = NoUrl
         [] calls[r] = <<"ImageConversation">> ->
              \/ rsp[r].shape = "no_choices"
              \/ \A i \in 1..Len(rsp[r].items) : rsp[r].items[i] = NoImage
         [] OTHER -> FALSE

\* C8: a backend 200 response that lacks a field the normalizer needs is
\* answered with 502 upstream_error, never with a success and never with an
\* unhandled fault.
C8_MissingFieldIs502 ==
    \A r \in Reqs :
        (Done(r) /\ LacksNeededField(r)) =>
            /\ out[r].kind = "error" /\ out[r].status = 502
            /\ out[r].type = "upstream_error"

\* C9: a backend call that raises ends the request with 502 upstream_error,
\* on every endpoint and convention.
C9_RaisedCallIs502 ==
    \A r \in Reqs :
        (Done(r) /\ rsp[r].kind = "raise") =>
            /\ out[r].kind = "error" /\ out[r].status = 502
            /\ out[r].type = "upstream_error"

C9_Witness ==
    \E r \in Reqs :
        /\ Done(r) /\ rsp[r].kind = "raise"
        /\ calls[r] = <<"ImageSynthesis">>
        /\ out[r].status = 502

\* C10: while the blocking ImageSynthesis call of a request is in flight the
\* event-loop thread is not held by that request.
C10_AsyncCallOffLoop ==
    \A r \in Reqs :
        (pc[r] = "inflight" /\ calls[r] = <<"ImageSynthesis">>) => loop # r

\* another request arrived after the call started and has been answered while
\* the call is still in flight
C10_Witness ==
    \E r \in Reqs, q \in Reqs :
        /\ r # q
        /\ pc[r] = "inflight" /\ calls[r] = <<"ImageSynthesis">>
        /\ Done(q) /\ r \in overlap[q]
        /\ out[q].kind # "none"


\* a backend call or byte fetch of slot r, other than the bridged
\* ImageSynthesis call, is in flight
OtherCallInFlight(r) ==
    \/ pc[r] = "blocking"
    \/ pc[r] = "download"
    \/ pc[r] = "inflight" /\ calls[r] = <<"ImageConversation">>

\* C11: while a sync image call, a Transcription call, a Speech call or an
\* audio fetch is in flight, the event-loop thread is not held by the request
\* that issued it, so other handlers can run.
C11_OtherCallsOffLoop ==
    \A r \in Reqs : OtherCallInFlight(r) => loop # r

EnvelopeTypes == { "invalid_request_error", "upstream_error", "permission_error" }

\* C12: every request that does not end in a success ends in the uniform
\* envelope: a message, a type of the taxonomy, and a code only when there is
\* one.
C12_UniformEnvelope ==
    \A r \in Reqs :
        (Done(r) /\ out[r].kind # "success") =>
            /\ out[r].kind = "error"
            /\ out[r].message # ""
            /\ out[r].type \in EnvelopeTypes
            /\ out[r].code # ""

\* the image request of slot r was answered with a data list
ImageAnswered(r) ==
    Done(r) /\ req[r].endpoint = "images" /\ out[r].kind = "success"

\* C13 as stated: with b64_json every asset whose fetch succeeded is returned
\* as base64 and every asset whose fetch failed as its URL; with any other
\* format every entry is the URL and nothing is fetched.
C13_B64OrUrl ==
    \A r \in Reqs :
        ImageAnswered(r) =>
            /\ Len(out[r].data) = Len(result[r])
            /\ \A i \in 1..Len(out[r].data) :
                 LET e == out[r].data[i]
                 IN /\ e.url = result[r][i].url
                    /\ IF req[r].response_format = "b64_json"
                       THEN /\ e.fetch \in {"bytes", "empty"} => e.key = "b64_json"
                            /\ e.fetch = "fail" => e.key = "url"
                            /\ e.fetch # "none"
                       ELSE e.key = "url" /\ e.fetch = "none"

\* C13 amended: with b64_json every asset whose fetch returned a non-empty
\* body is returned as base64, and every asset whose fetch failed or returned
\* an empty body as its URL, the request still succeeding; with any other
\* format every entry is the URL and nothing is fetched.
C13_B64OrUrlNonEmpty ==
    \A r \in Reqs :
        /\ (Done(r) /\ req[r].endpoint = "images" /\ result[r] # <<>>)
               => out[r].kind = "success"
        /\ ImageAnswered(r) =>
            /\ Len(out[r].data) = Len(result[r])
            /\ \A i \in 1..Len(out[r].data) :
                 LET e == out[r].data[i]
                 IN /\ e.url = result[r][i].url
                    /\ IF req[r].response_format = "b64_json"
                       THEN /\ e.fetch = "bytes" => e.key = "b64_json"
                            /\ e.fetch \in {"fail", "empty"} => e.key = "url"
                            /\ e.fetch # "none"
                       ELSE e.key = "url" /\ e.fetch = "none"

\* two assets, one fetched and encoded, the other falling back to its URL
C13_Witness ==
    \E r \in Reqs :
        /\ ImageAnswered(r) /\ req[r].response_format = "b64_json"
        /\ Len(out[r].data) = 2
        /\ out[r].data[1].key = "b64_json" /\ out[r].data[1].fetch = "bytes"
        /\ out[r].data[2].key = "url" /\ out[r].data[2].fetch = "fail"


\* the 400 that names the unsupported content type
UnsupportedContentType(o) ==
    /\ o.kind = "error" /\ o.status = 400
    /\ o.type = "invalid_request_error"
    /\ o.message = "unsupported_content_type"

\* C14 as stated: an image request declaring a content type that is neither
\* JSON nor form-encoded ends with the 400 naming the content type, and no
\* backend call is made for it.
C14_UnsupportedContentType ==
    \A r \in Reqs :
        (req[r].endpoint = "images" /\ req[r].ctype = "other") =>
            /\ calls[r] = <<>>
            /\ Done(r) => UnsupportedContentType(out[r])

\* C14 amended: an image request that passed credential resolution, declares
\* a content type that is neither JSON nor form-encoded, and whose body does
\* not parse as JSON either, ends with the 400 naming the content type, and no
\* backend call is made for it.
C14_UnsupportedUnparsable ==
    \A r \in Reqs :
        ( /\ req[r].endpoint = "images" /\ req[r].ctype = "other"
          /\ req[r].json = "invalid"
          /\ extract_api_key(req[r].authorization, DEFAULT_API_KEY).ok ) =>
            /\ calls[r] = <<>>
            /\ Done(r) => UnsupportedContentType(out[r])

C14_Witness ==
    \E r \in Reqs :
        /\ Done(r) /\ req[r].endpoint = "images" /\ req[r].ctype = "other"
        /\ req[r].json = "invalid"
        /\ UnsupportedContentType(out[r]) /\ calls[r] = <<>>


\* the backend answered the transcription call of slot r with a text
Transcribed(r) ==
    /\ Done(r) /\ req[r].endpoint = "transcriptions"
    /\ rsp[r].kind = "status" /\ rsp[r].status = 200 /\ rsp[r].shape = "text"

\* C15: a successful transcription is answered in the shape its output format
\* selects, compared case-insensitively: text, verbose_json, srt and vtt
\* select their own shape, anything else (absent, empty, unrecognized) the
\* json shape { text }, and never an error.
C15_ShapeByFormat ==
    \A r \in Reqs :
        Transcribed(r) =>
            LET f == req[r].response_format
                t == rsp[r].items
                shape == CASE f = "text" -> "text"
                           [] f = "verbose_json" -> "verbose_json"
                           [] f \in {"srt", "SRT"} -> "srt"
                           [] f \in {"vtt", "Vtt"} -> "vtt"
                           [] OTHER -> "json"
            IN /\ out[r].kind = "success"
               /\ out[r].message = shape
               /\ shape = "json" => out[r].data = [ text |-> t ]
               /\ shape = "text" => out[r].data = t
               /\ shape = "verbose_json" =>
                      /\ DOMAIN out[r].data =
                           { "task", "language", "duration", "text", "segments",
                             "words" }
                      /\ out[r].data.text = t

\* an upper-case format selects its shape, an unrecognized one falls back
C15_Witness ==
    \E r \in Reqs :
        /\ Transcribed(r)
        /\ \/ req[r].response_format = "SRT" /\ out[r].message = "srt"
           \/ req[r].response_format = "XML" /\ out[r].message = "json"

\* C16: for any canonical text t the srt body is exactly
\* "1\n00:00:00,000 --> 99:59:59,999\n" + t + "\n" and the vtt body exactly
\* "WEBVTT\n\n00:00:00.000 --> 99:59:59.999\n" + t + "\n".
C16_SingleCue ==
    \A r \in Reqs :
        (Transcribed(r) /\ out[r].kind = "success") =>
            LET t == rsp[r].items
                span == << "0", "0", ":", "0", "0", ":", "0", "0" >>
                end == << "9", "9", ":", "5", "9", ":", "5", "9" >>
                arrow == << " ", "-", "-", ">", " " >>
                nl == << "\n" >>
            IN /\ out[r].message = "srt" =>
                    out[r].data =
                        << "1" >> \o nl
                        \o span \o << ",", "0", "0", "0" >> \o arrow
                        \o end \o << ",", "9", "9", "9" >> \o nl
                        \o t \o nl
               /\ out[r].message = "vtt" =>
                    out[r].data =
                        << "W", "E", "B", "V", "T", "T" >> \o nl \o nl
                        \o span \o << ".", "0", "0", "0" >> \o arrow
                        \o end \o << ".", "9", "9", "9" >> \o nl
                        \o t \o nl

\* an srt answer for a text that itself contains a line break and an arrow
C16_Witness ==
    \E r \in Reqs :
        /\ Transcribed(r) /\ out[r].message = "srt"
        /\ rsp[r].items = << "a", "\n", "-", "-", ">", "b" >>
        /\ Len(out[r].data) = 39

\* C17: the size sent to the backend is the request's size with every 'x'
\* and 'X' replaced by '*' ("1664x928" and "1664X928" both give "1664*928"),
\* and the fixed default "1664*928" when the size is absent, null or empty.
C17_SizeNormalized ==
    \A r \in Reqs :
        Dispatched(r) =>
            LET sz == req[r].size
                std == << "1", "6", "6", "4", "*", "9", "2", "8" >>
            IN /\ (sz.kind \in {"absent", "null"} \/ sz.value = <<>>)
                      => args[r].size = std
               /\ (sz.kind = "str" /\ sz.value # <<>>) =>
                      /\ Len(args[r].size) = Len(sz.value)
                      /\ \A i \in 1..Len(sz.value) :
                           args[r].size[i] =
                               IF sz.value[i] \in {"x", "X"} THEN "*"
                               ELSE sz.value[i]
               /\ sz.value \in { << "1", "6", "6", "4", "x", "9", "2", "8" >>,
                                 << "1", "6", "6", "4", "X", "9", "2", "8" >> }
                      => args[r].size = std

C17_Witness ==
    \E r \in Reqs :
        /\ Dispatched(r)
        /\ req[r].size = SizeStr(<< "1", "6", "6", "4", "X", "9", "2", "8" >>)
        /\ args[r].size = << "1", "6", "6", "4", "*", "9", "2", "8" >>

ModelRaw(r) ==
    IF req[r].model # Absent THEN req[r].model
    ELSE IF req[r].endpoint = "images" THEN IMAGE_DEFAULT_MODEL
    ELSE TTS_DEFAULT_MODEL

\* slot r's handler has resolved its model name
Resolved(r) == req[r].endpoint \in {"images", "speech"} /\ ds_model[r] # Absent

\* C19: alias resolution depends on the name and the table only: two
\* requests of the same endpoint with the same name get the same backend name,
\* a declared alias (the lookup is case-insensitive) gets the table's backend
\* name, and an unmapped name is returned unchanged.
C19_ResolveModelPure ==
    /\ \A r1, r2 \in Reqs :
         ( /\ Resolved(r1) /\ Resolved(r2)
           /\ req[r1].endpoint = req[r2].endpoint
           /\ ModelRaw(r1) = ModelRaw(r2) ) => ds_model[r1] = ds_model[r2]
    /\ \A r \in Reqs :
         Resolved(r) =>
            LET x == ModelRaw(r)
                table == IF req[r].endpoint = "images" THEN IMAGE_MODEL_MAP
                         ELSE TTS_MODEL_MAP
            IN /\ x \in DOMAIN table => ds_model[r] = table[x]
               /\ (req[r].endpoint = "images" /\ x = "DALL-E-3")
                      => ds_model[r] = "qwen-image-max"
               /\ (req[r].endpoint = "speech" /\ x = "TTS-1-HD")
                      => ds_model[r] = "qwen3-tts-flash"
               /\ Lower(x) \notin DOMAIN table => ds_model[r] = x

\* two concurrent requests naming the same alias, and one unmapped name
C19_Witness ==
    \E r1, r2 \in Reqs :
        /\ r1 # r2 /\ Resolved(r1) /\ Resolved(r2)
        /\ req[r1].endpoint = "images" /\ req[r2].endpoint = "images"
        /\ req[r1].model = "DALL-E-3" /\ req[r2].model = "DALL-E-3"
        /\ ds_model[r1] = "qwen-image-max"

\* the credential step of slot r's handler has run
CredentialStepRun(r) ==
    /\ pc[r] \notin {"idle", "start"}
    /\ ~(req[r].endpoint = "transcriptions" /\ req[r].file = "absent")

\* the key an Authorization value carries: the text after "Bearer ", or the
\* whole value, without surrounding blanks
HeaderKey(v) ==
    CASE v = << "B", "e", "a", "r", "e", "r", " ", "a", "b", "c" >> -> << "a", "b", "c" >>
      [] v = << "a", "b", "c" >> -> << "a", "b", "c" >>
      [] OTHER -> <<>>

MissingKey(o) == o.kind = "error" /\ o.status = 401 /\ o.code = "missing_api_key"

\* C20 as stated: whenever the Authorization header is present the resolved
\* key is the header's, even with an environment default configured; the
\* default is the key only when the header is absent.
C20_HeaderWins ==
    \A r \in Reqs :
        CredentialStepRun(r) =>
            /\ req[r].authorization.present =>
                  /\ ~MissingKey(out[r])
                  /\ api_key[r] = HeaderKey(req[r].authorization.value)
            /\ (~req[r].authorization.present /\ DEFAULT_API_KEY # <<>>)
                  => api_key[r] = DEFAULT_API_KEY

\* C20 amended: whenever the Authorization header is present and not empty
\* the resolved key is the header's, even with an environment default
\* configured; the default is the key only when the header is absent or empty.
C20_NonEmptyHeaderWins ==
    \A r \in Reqs :
        CredentialStepRun(r) =>
            LET h == req[r].authorization
                given == h.present /\ h.value # <<>>
            IN /\ given => /\ ~MissingKey(out[r])
                           /\ api_key[r] = HeaderKey(h.value)
               /\ (~given /\ DEFAULT_API_KEY # <<>>) => api_key[r] = DEFAULT_API_KEY
               /\ (~given /\ DEFAULT_API_KEY = <<>>) => MissingKey(out[r])

\* a header key resolved although an environment default is configured
C20_Witness ==
    \E r \in Reqs :
        /\ CredentialStepRun(r) /\ DEFAULT_API_KEY = << "e", "n", "v" >>
        /\ req[r].authorization.present
        /\ api_key[r] = << "a", "b", "c" >>


\* C21: whatever requests are handled, concurrently and with whatever
\* outcome, the model alias tables, the voice alias table and the capability
\* sets stay what they were at start-up.
C21_TablesUnchanged ==
    /\ tables.IMAGE_MODEL_MAP = IMAGE_MODEL_MAP
    /\ tables.TTS_MODEL_MAP = TTS_MODEL_MAP
    /\ tables.VOICE_MAP = VOICE_MAP
    /\ tables.SYNC_MODELS = SYNC_MODELS
    /\ tables.ASYNC_MODELS = ASYNC_MODELS
    /\ tables.SYNC_ONLY_MODELS = SYNC_ONLY_MODELS
    /\ tables.ASYNC_ONLY_MODELS = ASYNC_ONLY_MODELS

\* two requests handled side by side, one with an unmapped model name, one
\* ending in an error
C21_Witness ==
    \E r1, r2 \in Reqs :
        /\ r1 # r2 /\ Resolved(r1) /\ Resolved(r2)
        /\ Lower(ModelRaw(r1)) \notin DOMAIN IMAGE_MODEL_MAP \cup DOMAIN TTS_MODEL_MAP
        /\ Done(r2) /\ out[r2].kind = "error"
        /\ tables = ShippedTables


\* the backend image models the gateway can name: the listed ones and the
\* targets of the image aliases
ReachableImageModels ==
    IMAGE_SUPPORTED_MODELS
    \cup { tables.IMAGE_MODEL_MAP[k] : k \in DOMAIN tables.IMAGE_MODEL_MAP }

\* C22: every backend image model the gateway lists or maps an alias to is
\* in the sync set or in the async set, and a model in both sets is sent
\* through the sync convention.
C22_CapableAndSyncPreferred ==
    /\ \A m \in ReachableImageModels :
         /\ m \in tables.SYNC_MODELS \cup tables.ASYNC_MODELS
         /\ m \in tables.SYNC_MODELS \cap tables.ASYNC_MODELS => ~use_async_api(m)
    /\ \A r \in Reqs :
         ( /\ Dispatched(r)
           /\ ds_model[r] \in tables.SYNC_MODELS \cap tables.ASYNC_MODELS )
             => calls[r][1] = "ImageConversation"

\* a listed model that is in both sets, dispatched through the sync convention
C22_Witness ==
    \E r \in Reqs :
        /\ Dispatched(r) /\ req[r].model = "qwen-image-plus"
        /\ ds_model[r] \in ReachableImageModels
        /\ ds_model[r] \in tables.SYNC_MODELS \cap tables.ASYNC_MODELS
        /\ calls[r] = << "ImageConversation" >>
        /\ pc[r] = "inflight"


\* the backend call of slot r raised, reported a non-success status, or
\* returned a result the normalizer cannot use
CallFailed(r) ==
    \/ rsp[r].kind = "raise"
    \/ rsp[r].kind = "status" /\ rsp[r].status # 200
    \/ LacksNeededField(r)

\* C23: every request ends either in a success response or in an error
\* envelope, and a request whose backend call failed ends in an error
\* envelope, never in a success payload (partial or default).
C23_FailureIsErrorEnvelope ==
    \A r \in Reqs :
        Done(r) =>
            /\ out[r].kind \in {"success", "error"}
            /\ CallFailed(r) => out[r].kind = "error"

\* C24: a successful image response has at least one data entry, under both
\* conventions.
C24_NonEmptyData ==
    \A r \in Reqs : ImageAnswered(r) => Len(out[r].data) >= 1


\* C25: a request without Authorization header, with no environment default
\* configured, ends with HTTP 401 whatever its body, and no backend call is
\* made for it.
C25_CredentialFirst ==
    \A r \in Reqs :
        (Done(r) /\ ~req[r].authorization.present /\ DEFAULT_API_KEY = <<>>) =>
            /\ out[r].kind = "error" /\ out[r].status = 401
            /\ calls[r] = <<>>

\* C26: a request that got past credential resolution has a non-empty key,
\* so no backend call is made with an empty key.
C26_KeyNonEmpty ==
    \A r \in Reqs :
        /\ (CredentialStepRun(r) /\ ~MissingKey(out[r])) => api_key[r] # <<>>
        /\ calls[r] # <<>> => api_key[r] # <<>>

\* names to resolve: the aliases, case variants of them, backend models and
\* names the tables do not know
ModelNames ==
    DOMAIN IMAGE_MODEL_MAP \cup DOMAIN TTS_MODEL_MAP
    \cup IMAGE_SUPPORTED_MODELS \cup TTS_SUPPORTED_MODELS
    \cup { "DALL-E-3", "Dall-E-2", "TTS-1-HD", "QWEN-IMAGE", "my-custom-model" }

\* C27: every alias target is a listed backend model and not itself an alias
\* key, resolving a resolved name changes nothing, and a case variant of an
\* alias resolves to what the alias resolves to.
C27_ClosedAndIdempotent ==
    /\ \A k \in DOMAIN tables.IMAGE_MODEL_MAP :
         /\ tables.IMAGE_MODEL_MAP[k] \in IMAGE_SUPPORTED_MODELS
         /\ tables.IMAGE_MODEL_MAP[k] \notin DOMAIN tables.IMAGE_MODEL_MAP
    /\ \A k \in DOMAIN tables.TTS_MODEL_MAP :
         /\ tables.TTS_MODEL_MAP[k] \in TTS_SUPPORTED_MODELS
         /\ tables.TTS_MODEL_MAP[k] \notin DOMAIN tables.TTS_MODEL_MAP
    /\ \A x \in ModelNames :
         /\ images_resolve_model(images_resolve_model(x)) = images_resolve_model(x)
         /\ speech_resolve_model(speech_resolve_model(x)) = speech_resolve_model(x)
    /\ images_resolve_model("DALL-E-3") = images_resolve_model("dall-e-3")
    /\ images_resolve_model("Dall-E-2") = images_resolve_model("dall-e-2")
    /\ speech_resolve_model("TTS-1-HD") = speech_resolve_model("tts-1-hd")
    /\ \A r \in Reqs :
         Resolved(r) =>
            /\ req[r].endpoint = "images" =>
                  /\ images_resolve_model(ds_model[r]) = ds_model[r]
                  /\ req[r].model = "DALL-E-3" =>
                         ds_model[r] = tables.IMAGE_MODEL_MAP["dall-e-3"]
            /\ req[r].endpoint = "speech" =>
                  /\ speech_resolve_model(ds_model[r]) = ds_model[r]
                  /\ req[r].model = "TTS-1-HD" =>
                         ds_model[r] = tables.TTS_MODEL_MAP["tts-1-hd"]

\* an upper-case alias resolved by a handler to a listed backend model
C27_Witness ==
    \E r \in Reqs :
        /\ Resolved(r) /\ req[r].endpoint = "speech"
        /\ req[r].model = "TTS-1-HD"
        /\ ds_model[r] \in TTS_SUPPORTED_MODELS

====
